---------------------------- MODULE Spec2Model ----------------------------
(***************************************************************************)
(* A model of ds.py, the DeepSeek command-line chat client: the            *)
(* interactive loop with its streamed-reply reconciliation and session     *)
(* log, the history search, and the keyword highlighter.                   *)
(*                                                                         *)
(* Text is a sequence of one-character strings.  The file is organised as  *)
(* text helpers, the chat session (specification Spec), the history search *)
(* (SearchSpec) and the highlighter on its own (HighlightSpec); MainSpec   *)
(* is the whole program from its command line, and SegmentSpec the search  *)
(* over one session file whose turns span several lines.                   *)
(***************************************************************************)
EXTENDS Integers, Sequences, FiniteSets, TLC

VARIABLES
    \* ---- the command line (ds.py 277-281)
    args_search             \* args.search: whether --search was given, and its value

argVars == <<args_search>>

VARIABLES
    \* ---- interactive loop (ds.py 275-352) and ChatSession (14-127)
    pc,                     \* where the main loop waits
    messages,               \* ChatSession.messages
    log_file,               \* the session file: one element per write call
    consecutive_interrupts, \* line 297
    raw_input,              \* the line as get_multiline_input returned it, line 303
    user_input,             \* line 303, rewritten by the @file expansion
    reply_accum,            \* line 336
    content,                \* _process_stream's accumulator, line 105
    reasoning_printed,      \* _process_stream's flag, line 106
    printed,                \* what the loop of lines 337-342 printed this turn
    chunks,                 \* the chunks the stream delivered this turn
    requests,               \* the message list of each create() call (lines 73-77)
    warnings,               \* the files line 328 reported as not found, in order
    last_event,             \* the event the loop handled last
    last_turn,              \* how the last dispatched turn ended
    n_inputs,               \* lines captured so far (bounded by MaxInputs)
    n_chunks                \* chunks delivered so far (bounded by MaxChunks)

chatVars == <<pc, messages, log_file, consecutive_interrupts, raw_input, user_input,
              reply_accum, content, reasoning_printed, printed, chunks,
              requests, warnings, last_event, last_turn, n_inputs, n_chunks>>

VARIABLES
    \* ---- search_history (ds.py 221-260)
    s_pc,                   \* where search_history (and highlight_keyword) stands
    history,                \* the history directory: file name -> the writes it holds
    keyword,                \* search_history's argument
    max_results,            \* search_history's argument
    results,                \* line 226
    current_block,          \* line 227
    current_header,         \* line 228
    listing,                \* sorted(os.listdir(directory)), line 230
    file_index,             \* position of the loop of line 230 in the listing
    lines,                  \* line 235
    line_index,             \* position of the loop of line 237 in lines
    show_index,             \* position of the loop of line 256
    report,                 \* the results printed by lines 257-260, in order
    not_found,              \* whether line 253 printed that nothing was found
    run,                    \* which call of search_history this is (1 or 2)
    first_report,           \* what the first call printed
    \* ---- highlight_keyword (ds.py 262-273)
    hl_text,                \* its argument text
    hl_keyword,             \* its argument keyword
    hl_i,                   \* i
    hl_result,              \* result
    hl_steps                \* iterations of the while loop so far (bounded by MaxSteps)

searchVars == <<s_pc, history, keyword, max_results, results, current_block,
                current_header, listing, file_index, lines, line_index, show_index,
                report, not_found, run, first_report>>

hlVars == <<hl_text, hl_keyword, hl_i, hl_result, hl_steps>>

vars == <<argVars, chatVars, searchVars, hlVars>>

----------------------------------------------------------------------------
(* Bounds *)

MaxInputs == 2

MaxChunks == 3

\* turns logged in the history directory, over all its session files
MaxTurns == 2

\* the largest max_results a search is called with
MaxResults == 2

\* the longest text and keyword highlight_keyword is called with on its own
MaxTextLen == 3

MaxKeyLen == 2

\* iterations of highlight_keyword's loop that are followed
MaxSteps == 5

----------------------------------------------------------------------------
(* Text helpers: Python's str operations on sequences of characters *)

Min(a, b) == IF a <= b THEN a ELSE b

Max(a, b) == IF a >= b THEN a ELSE b

\* s[i:j] with 0 <= i, 0 <= j (Python slicing clips at the end)
Slice(s, i, j) == SubSeq(s, i + 1, Min(j, Len(s)))

RECURSIVE Flatten(_)
Flatten(ss) == IF ss = <<>> THEN <<>> ELSE Head(ss) \o Flatten(Tail(ss))

\* s.startswith(p)
StartsWith(s, p) == Len(p) <= Len(s) /\ SubSeq(s, 1, Len(p)) = p

\* s.endswith(p)
EndsWith(s, p) == Len(p) <= Len(s) /\ SubSeq(s, Len(s) - Len(p) + 1, Len(s)) = p

\* p in s
Contains(s, p) == \E i \in 0..(Len(s) - Len(p)) : Slice(s, i, i + Len(p)) = p

\* the characters str.strip() removes
Whitespace == {" ", "\n", "\t"}

RECURSIVE lstrip(_)
lstrip(s) == IF s # <<>> /\ Head(s) \in Whitespace THEN lstrip(Tail(s)) ELSE s

RECURSIVE rstrip(_)
rstrip(s) ==
    IF s # <<>> /\ s[Len(s)] \in Whitespace THEN rstrip(SubSeq(s, 1, Len(s) - 1)) ELSE s

\* s.strip()
strip(s) == rstrip(lstrip(s))

\* s.find(p, from): the least index >= from where p occurs, or -1
RECURSIVE find(_, _, _)
find(s, p, from) ==
    IF from + Len(p) > Len(s) THEN -1
    ELSE IF Slice(s, from, from + Len(p)) = p THEN from
    ELSE find(s, p, from + 1)

\* s.replace(old, new) for a non-empty old: every occurrence, left to right
RECURSIVE replace(_, _, _)
replace(s, old, new) ==
    LET k == find(s, old, 0)
    IN IF k = -1 THEN s
       ELSE Slice(s, 0, k) \o new \o replace(Slice(s, k + Len(old), Len(s)), old, new)

----------------------------------------------------------------------------
(* Session Log Store: append_to_log, ds.py 200-203 *)

User == <<"U", "s", "e", "r">>

Assistant == <<"A", "s", "s", "i", "s", "t", "a", "n", "t">>

Digits == <<"0", "1", "2", "3", "4", "5", "6", "7", "8", "9">>

\* datetime.now().strftime("%H:%M:%S") at the k-th write (k = 0, 1, ...) of the
\* session that started at 1n:00:00: the clock moves a second between writes
clock(n, k) ==
    <<"1", Digits[n + 1], ":", "0", "0", ":", Digits[((k \div 10) % 6) + 1], Digits[(k % 10) + 1]>>

\* the header line "[{role} @ {now}]\n"
log_header(role, now) == <<"[">> \o role \o <<" ", "@", " ">> \o now \o <<"]", "\n">>

\* log_entry without the strip() of line 203
log_entry_untrimmed(role, now, text) == log_header(role, now) \o text \o <<"\n", "\n">>

\* the text of one write: f"[{role} @ {now}]\n{content.strip()}\n\n"
log_entry(role, now, text) == log_header(role, now) \o strip(text) \o <<"\n", "\n">>

\* append_to_log that writes the model's replies only
append_to_log_replies_only(file, role, now, text) ==
    IF role = User THEN file ELSE Append(file, log_entry(role, now, text))

\* open(file_path, "a") ... f.write(...): the file grows by one write
append_to_log(file, role, now, text) == Append(file, log_entry(role, now, text))

\* the role and the text of a write, read back from its characters
EntryRole(w) == IF StartsWith(w, <<"[">> \o User) THEN "User" ELSE "Assistant"

\* the header line ends at the first newline, which closes "[{role} @ {now}]"
UserHeaderLen == Len(log_header(User, clock(0, 0)))

AssistantHeaderLen == Len(log_header(Assistant, clock(0, 0)))

EntryText(w) ==
    SubSeq(w, (IF EntryRole(w) = "User" THEN UserHeaderLen ELSE AssistantHeaderLen) + 1,
           Len(w) - 2)

----------------------------------------------------------------------------
(* Conversation State: ChatSession.messages, ds.py 36-47 *)

SystemMessage ==
    <<"Y", "o", "u", " ", "a", "r", "e", " ", "a", " ", "h", "e", "l", "p", "f", "u", "l",
      " ", "a", "s", "s", "i", "s", "t", "a", "n", "t", ".">>

append_message(msgs, role, text) == Append(msgs, [role |-> role, content |-> text])

----------------------------------------------------------------------------
(* Inline file inclusion, ds.py 315-330 *)

FileDirective == <<"@", "f", "i", "l", "e", "(">>

\* the files that exist, with their text; any other path raises FileNotFoundError
FileSystem == [p \in {<<"f">>} |-> <<"c">>]

\* the index of the ")" that ends a directive's path in s, or -1: the lazy .*?
\* runs to the first ")" and, as "." matches no newline, fails on a newline before it
RECURSIVE path_end(_, _)
path_end(s, j) ==
    IF j >= Len(s) THEN -1
    ELSE IF s[j + 1] = ")" THEN j
    ELSE IF s[j + 1] = "\n" THEN -1
    ELSE path_end(s, j + 1)

\* re.findall(r'@file\((.*?)\)', s)
RECURSIVE findall_file(_)
findall_file(s) ==
    LET k == find(s, FileDirective, 0)
    IN IF k = -1 THEN <<>>
       ELSE LET rest == Slice(s, k + Len(FileDirective), Len(s))
                e == path_end(rest, 0)
            IN IF e = -1 THEN findall_file(Slice(s, k + 1, Len(s)))
               ELSE <<Slice(rest, 0, e)>> \o findall_file(Slice(rest, e + 1, Len(rest)))

\* f"\n===== 文件 {file_name} 内容如下 =====\n{file_content}\n===== 结束 =====\n"
\* (each CJK character is one symbol, named by its pinyin)
file_block(file_name, file_content) ==
    <<"\n", "=", "=", "=", "=", "=", " ", "wen", "jian", " ">> \o file_name
    \o <<" ", "nei", "rong", "ru", "xia", " ", "=", "=", "=", "=", "=", "\n">>
    \o file_content
    \o <<"\n", "=", "=", "=", "=", "=", " ", "jie", "shu", " ", "=", "=", "=", "=", "=", "\n">>

\* expand_files that passes over a missing file instead of breaking
RECURSIVE expand_files_skip_missing(_, _)
expand_files_skip_missing(text, file_refs) ==
    IF file_refs = <<>> THEN [user_input |-> text, file_not_found |-> FALSE, warned |-> <<>>]
    ELSE LET file_name == Head(file_refs)
         IN IF file_name \in DOMAIN FileSystem
            THEN expand_files_skip_missing(
                     replace(text, FileDirective \o file_name \o <<")">>,
                             file_block(file_name, FileSystem[file_name])),
                     Tail(file_refs))
            ELSE expand_files_skip_missing(text, Tail(file_refs))

\* the for loop of lines 318-330 over the remaining file_refs
RECURSIVE expand_files(_, _)
expand_files(text, file_refs) ==
    IF file_refs = <<>> THEN [user_input |-> text, file_not_found |-> FALSE, warned |-> <<>>]
    ELSE LET file_name == Head(file_refs)
         IN IF file_name \in DOMAIN FileSystem
            THEN expand_files(replace(text, FileDirective \o file_name \o <<")">>,
                                      file_block(file_name, FileSystem[file_name])),
                              Tail(file_refs))
            ELSE [user_input |-> text, file_not_found |-> TRUE, warned |-> <<file_name>>]

----------------------------------------------------------------------------
(* Stream Reconciler: ChatSession._process_stream, ds.py 93-127 *)

ReasoningMarker == <<"=", "=", "R", "e", "a", "s", "o", "n", "i", "n", "g", "=", "=", "\n">>

\* None, and the empty string: both are false in the tests of lines 111, 117, 338
None == <<>>

\* the texts a delta may carry as reasoning_content and as content
ReasoningTexts == { <<"r">> }

AnswerTexts == { <<"a">>, <<" ">> }

\* a chunk: its delta's reasoning_content and content, and whether finish_reason
\* is set; the API populates at most one of the two texts (docstring, lines 63-67)
Chunks ==
    { c \in [reasoning_content : ReasoningTexts \cup {None},
             content : AnswerTexts \cup {None},
             finish : BOOLEAN] :
        c.reasoning_content = None \/ c.content = None }

\* process_chunk without the reasoning_printed test of line 112
process_chunk_marker_each(acc, flag, chunk) ==
    IF chunk.reasoning_content # None
    THEN [content |-> acc,
          reasoning_printed |-> TRUE,
          yields |-> << <<ReasoningMarker, None>>, <<chunk.reasoning_content, None>> >>]
    ELSE IF chunk.content # None
    THEN [content |-> acc \o chunk.content,
          reasoning_printed |-> flag,
          yields |-> << <<None, chunk.content>> >>]
    ELSE [content |-> acc, reasoning_printed |-> flag, yields |-> <<>>]

\* one pass of the for loop body, lines 109-119: the new accumulator and flag and
\* the tuples yielded, each <<reasoning, reply>>
process_chunk(acc, flag, chunk) ==
    IF chunk.reasoning_content # None
    THEN [content |-> acc,
          reasoning_printed |-> TRUE,
          yields |-> (IF ~flag THEN << <<ReasoningMarker, None>> >> ELSE <<>>)
                     \o << <<chunk.reasoning_content, None>> >>]
    ELSE IF chunk.content # None
    THEN [content |-> acc \o chunk.content,
          reasoning_printed |-> flag,
          yields |-> << <<None, chunk.content>> >>]
    ELSE [content |-> acc, reasoning_printed |-> flag, yields |-> <<>>]

\* the caller's loop body, lines 338-342, on one yielded tuple: what it prints
main_print(y) == IF y[1] # None THEN y[1] ELSE y[2]

\* main_accumulate without the test of line 338: whatever was yielded is kept
main_accumulate_all(acc, y) == acc \o y[1] \o y[2]

\* ... and what reply_accum becomes
main_accumulate(acc, y) == IF y[1] # None THEN acc ELSE acc \o y[2]

RECURSIVE consume(_, _, _)
consume(acc, out, ys) ==
    IF ys = <<>> THEN [reply_accum |-> acc, printed |-> out]
    ELSE consume(main_accumulate(acc, Head(ys)), Append(out, main_print(Head(ys))), Tail(ys))

----------------------------------------------------------------------------
(* The interactive loop, ds.py 294-352 *)

Directive(path) == FileDirective \o path \o <<")">>

\* the lines get_multiline_input may return
UserInputs ==
    { <<"h", "i", " ">>,
      <<"s", "e", "e", " ">> \o Directive(<<"f">>),
      Directive(<<"f">>) \o Directive(<<"m">>) }

\* args.search when --search is not on the command line (argparse's default)
NoSearch == [given |-> FALSE, value |-> <<>>]

\* the session and its log exist and the loop waits for a line, lines 294-297
ChatInit ==
    /\ pc = "input"
    /\ messages = <<[role |-> "system", content |-> SystemMessage]>>
    /\ log_file = <<>>
    /\ consecutive_interrupts = 0
    /\ raw_input = <<>>
    /\ user_input = <<>>
    /\ reply_accum = <<>>
    /\ content = <<>>
    /\ reasoning_printed = FALSE
    /\ printed = <<>>
    /\ chunks = <<>>
    /\ requests = <<>>
    /\ warnings = <<>>
    /\ last_event = "start"
    /\ last_turn = "none"
    /\ n_inputs = 0
    /\ n_chunks = 0

\* search_history and highlight_keyword are not running
SearchIdle ==
    /\ s_pc = "idle"
    /\ history = <<>>
    /\ keyword = <<>>
    /\ max_results = 0
    /\ results = <<>>
    /\ current_block = <<>>
    /\ current_header = <<>>
    /\ listing = <<>>
    /\ file_index = 0
    /\ lines = <<>>
    /\ line_index = 0
    /\ show_index = 0
    /\ report = <<>>
    /\ not_found = FALSE
    /\ run = 0
    /\ first_report = <<>>

HighlightIdle ==
    /\ hl_text = <<>>
    /\ hl_keyword = <<>>
    /\ hl_i = 0
    /\ hl_result = <<>>
    /\ hl_steps = 0

\* the program started without --search: lines 294-297
Init == args_search = NoSearch /\ ChatInit /\ SearchIdle /\ HighlightIdle

\* get_response with the request sent before the user message is appended
get_response_send_first(msgs, text) ==
    [messages |-> append_message(msgs, "user", text), request |-> msgs]

\* get_response up to the create() call, lines 70-77: the user message is
\* appended and the whole list is sent
get_response(msgs, text) ==
    LET m == append_message(msgs, "user", text)
    IN [messages |-> m, request |-> m]

\* lines 346-349 (and 306-310): count the interrupt; the second in a row is
\* re-raised to line 351, which says goodbye and ends the program
after_interrupt(n) == IF n + 1 >= 2 THEN "exited" ELSE "input"

\* Ctrl+C while get_multiline_input waits, lines 305-310
InputInterrupt ==
    /\ last_event' = "input_interrupt"
    /\ UNCHANGED last_turn
    /\ UNCHANGED <<argVars, searchVars, hlVars, warnings, raw_input>>
    /\ pc = "input"
    /\ consecutive_interrupts' = consecutive_interrupts + 1
    /\ pc' = after_interrupt(consecutive_interrupts)
    /\ UNCHANGED <<messages, log_file, user_input, reply_accum, content,
                   reasoning_printed, printed, chunks, requests, n_inputs, n_chunks>>

\* A line is captured, lines 303-337: it is logged, its @file directives are
\* expanded, and unless a file is missing it is appended to the conversation and
\* the request is sent (get_response, lines 70-77)
InputLine(line) ==
    /\ last_event' = "line"
    /\ UNCHANGED last_turn
    /\ UNCHANGED <<argVars, searchVars, hlVars>>
    /\ pc = "input"
    /\ n_inputs < MaxInputs
    /\ n_inputs' = n_inputs + 1
    /\ n_chunks' = n_chunks
    /\ consecutive_interrupts' = 0
    /\ log_file' = append_to_log(log_file, User, clock(0, Len(log_file)), line)
    /\ LET e == expand_files(line, findall_file(line))
       IN /\ raw_input' = line
          /\ user_input' = e.user_input
          /\ warnings' = warnings \o e.warned
          /\ IF e.file_not_found
             THEN /\ pc' = "input"
                  /\ UNCHANGED <<messages, reply_accum, requests>>
             ELSE /\ pc' = "dispatch"
                  /\ reply_accum' = <<>>
                  /\ LET r == get_response(messages, e.user_input)
                     IN /\ messages' = r.messages
                        /\ requests' = Append(requests, r.request)
    /\ UNCHANGED <<content, reasoning_printed, printed, chunks>>

\* create() returns the stream and the generator starts, lines 91, 105-106
DispatchOk ==
    /\ last_event' = "dispatch"
    /\ UNCHANGED last_turn
    /\ UNCHANGED <<argVars, searchVars, hlVars, warnings, raw_input>>
    /\ pc = "dispatch"
    /\ pc' = "stream"
    /\ content' = <<>>
    /\ reasoning_printed' = FALSE
    /\ printed' = <<>>
    /\ chunks' = <<>>
    /\ UNCHANGED <<messages, log_file, consecutive_interrupts, user_input,
                   reply_accum, requests, n_inputs, n_chunks>>

\* create() or the stream raises anything but KeyboardInterrupt: no handler of
\* lines 345 and 351 catches it, and the program ends with the exception
TransportFault ==
    /\ last_event' = "fault"
    /\ last_turn' = "faulted"
    /\ UNCHANGED <<argVars, searchVars, hlVars, warnings, raw_input>>
    /\ pc \in {"dispatch", "stream"}
    /\ pc' = "crashed"
    /\ UNCHANGED <<messages, log_file, consecutive_interrupts, user_input, reply_accum,
                   content, reasoning_printed, printed, chunks, requests, n_inputs, n_chunks>>

\* Ctrl+C while the reply is awaited or streamed, lines 345-349
StreamInterrupt ==
    /\ last_event' = "stream_interrupt"
    /\ last_turn' = "interrupted"
    /\ UNCHANGED <<argVars, searchVars, hlVars, warnings, raw_input>>
    /\ pc \in {"dispatch", "stream"}
    /\ consecutive_interrupts' = consecutive_interrupts + 1
    /\ pc' = after_interrupt(consecutive_interrupts)
    /\ UNCHANGED <<messages, log_file, user_input, reply_accum, content,
                   reasoning_printed, printed, chunks, requests, n_inputs, n_chunks>>

\* A chunk without finish_reason arrives, lines 108-119 and 337-342
StreamFragment(chunk) ==
    /\ last_event' = "fragment"
    /\ UNCHANGED last_turn
    /\ UNCHANGED <<argVars, searchVars, hlVars, warnings, raw_input>>
    /\ pc = "stream"
    /\ ~chunk.finish
    /\ n_chunks < MaxChunks
    /\ n_chunks' = n_chunks + 1
    /\ LET g == process_chunk(content, reasoning_printed, chunk)
           m == consume(reply_accum, printed, g.yields)
       IN /\ content' = g.content
          /\ reasoning_printed' = g.reasoning_printed
          /\ reply_accum' = m.reply_accum
          /\ printed' = m.printed
    /\ chunks' = Append(chunks, chunk)
    /\ UNCHANGED <<pc, messages, log_file, consecutive_interrupts, user_input,
                   requests, n_inputs>>

\* The chunk that carries finish_reason arrives, lines 108-127: the generator
\* appends the assistant message and ends, and line 343 logs the reply
StreamTerminal(chunk) ==
    /\ last_event' = "terminal"
    /\ last_turn' = "completed"
    /\ UNCHANGED <<argVars, searchVars, hlVars, warnings, raw_input>>
    /\ pc = "stream"
    /\ chunk.finish
    /\ n_chunks < MaxChunks
    /\ n_chunks' = n_chunks + 1
    /\ LET g == process_chunk(content, reasoning_printed, chunk)
           m == consume(reply_accum, printed, g.yields)
       IN /\ content' = g.content
          /\ reasoning_printed' = g.reasoning_printed
          /\ reply_accum' = m.reply_accum
          /\ printed' = m.printed
          /\ messages' = append_message(messages, "assistant", g.content)
          /\ log_file' = append_to_log(log_file, Assistant, clock(0, Len(log_file)), m.reply_accum)
    /\ chunks' = Append(chunks, chunk)
    /\ pc' = "input"
    /\ UNCHANGED <<consecutive_interrupts, user_input, requests, n_inputs>>

\* The stream is exhausted with no chunk carrying finish_reason: the for loop of
\* line 108 ends, nothing is appended to the conversation, and line 343 logs
StreamEnd ==
    /\ last_event' = "stream_end"
    /\ last_turn' = "ended"
    /\ UNCHANGED <<argVars, searchVars, hlVars, warnings, raw_input>>
    /\ pc = "stream"
    /\ log_file' = append_to_log(log_file, Assistant, clock(0, Len(log_file)), reply_accum)
    /\ pc' = "input"
    /\ UNCHANGED <<messages, consecutive_interrupts, user_input, reply_accum, content,
                   reasoning_printed, printed, chunks, requests, n_inputs, n_chunks>>

Next ==
    \/ InputInterrupt
    \/ \E line \in UserInputs : InputLine(line)
    \/ DispatchOk
    \/ TransportFault
    \/ StreamInterrupt
    \/ \E chunk \in Chunks : StreamFragment(chunk)
    \/ \E chunk \in Chunks : StreamTerminal(chunk)
    \/ StreamEnd

Spec == Init /\ [][Next]_vars

----------------------------------------------------------------------------
(* Properties of the chat session (specification Spec) *)

Last(s) == s[Len(s)]

CharsOf(texts) == UNION { { t[i] : i \in 1..Len(t) } : t \in texts }

IsAnswerText(x) == x \in AnswerTexts

\* the answer fragments printed this turn, concatenated in order
DisplayedAnswer == Flatten(SelectSeq(printed, IsAnswerText))

\* the last write to the session file is an Assistant entry: the turn that
\* printed `printed` has been logged and no line has been captured since
ReplyLogged == log_file # <<>> /\ EntryRole(Last(log_file)) = "Assistant"

\* the characters reasoning fragments and answer fragments are made of
ReasoningChars == CharsOf(ReasoningTexts)

AnswerChars == CharsOf(AnswerTexts)

\* the input lines as a User entry holds them
TrimmedInputs == { strip(line) : line \in UserInputs }

(* C1. The session log never holds reasoning text or the ==Reasoning==      *)
(* marker: the text of every User entry is a captured input line (trimmed), *)
(* and the text of every Assistant entry is made of answer-fragment         *)
(* characters only.                                                         *)
C1_NoReasoningInLog ==
    \A k \in 1..Len(log_file) :
        LET text == EntryText(log_file[k])
            chars == { text[i] : i \in 1..Len(text) }
        IN /\ chars \cap ReasoningChars = {}
           /\ ~Contains(text, ReasoningMarker)
           /\ EntryRole(log_file[k]) = "User" => text \in TrimmedInputs
           /\ EntryRole(log_file[k]) = "Assistant" => chars \subseteq AnswerChars

\* a turn that printed the marker, reasoning and an answer has been logged
C1_Witness ==
    /\ ReplyLogged
    /\ \E i \in 1..Len(printed) : printed[i] = ReasoningMarker
    /\ EntryText(Last(log_file)) # <<>>

(* C2 (as amended). The text of a turn's Assistant log entry is the         *)
(* in-order concatenation of the answer fragments printed during that turn, *)
(* with leading and trailing whitespace trimmed.                            *)
C2_LoggedReplyIsTrimmedDisplay ==
    ReplyLogged => EntryText(Last(log_file)) = strip(DisplayedAnswer)

\* a logged reply whose printed answer starts or ends with whitespace
C2_Witness ==
    /\ ReplyLogged
    /\ pc = "input"
    /\ DisplayedAnswer # strip(DisplayedAnswer)
    /\ strip(DisplayedAnswer) # <<>>

(* C2 (as stated). The text of a turn's Assistant log entry equals the      *)
(* in-order concatenation of the answer fragments printed during that turn. *)
C2_LoggedReplyIsDisplay ==
    ReplyLogged => EntryText(Last(log_file)) = DisplayedAnswer

\* the text a chunk carries: its reasoning, else its answer content
FragmentOf(c) == IF c.reasoning_content # None THEN c.reasoning_content ELSE c.content

\* the index of the first chunk with reasoning, or 0
FirstReasoning(cs) ==
    IF \E i \in 1..Len(cs) : cs[i].reasoning_content # None
    THEN CHOOSE i \in 1..Len(cs) :
            /\ cs[i].reasoning_content # None
            /\ \A j \in 1..(i - 1) : cs[j].reasoning_content = None
    ELSE 0

\* the non-empty fragments of cs in order, the marker before the first reasoning
ExpectedOutput(cs) ==
    Flatten([i \in 1..Len(cs) |->
                (IF i = FirstReasoning(cs) THEN <<ReasoningMarker>> ELSE <<>>)
                \o (IF FragmentOf(cs[i]) # <<>> THEN <<FragmentOf(cs[i])>> ELSE <<>>)])

\* the answer content of cs concatenated in order
AnswerOf(cs) == Flatten([i \in 1..Len(cs) |-> cs[i].content])

(* C3. What a turn has printed is the non-empty fragments of its chunks in  *)
(* arrival order, with the ==Reasoning== marker once, immediately before    *)
(* the first reasoning fragment, and not at all without one; the            *)
(* accumulator is the answer fragments concatenated, so a chunk with no     *)
(* text prints nothing and leaves it unchanged.                             *)
C3_LiveOutput ==
    /\ printed = ExpectedOutput(chunks)
    /\ content = AnswerOf(chunks)

\* two reasoning fragments and then an answer fragment have been processed
C3_Witness ==
    /\ Len(chunks) = 3
    /\ chunks[1].reasoning_content # None
    /\ chunks[2].reasoning_content # None
    /\ chunks[3].content # None

(* C4. A step that sends a request appends exactly one user message (the    *)
(* expanded input) and sends the list that ends with it; a step that        *)
(* processes the chunk carrying the terminal marker appends exactly one     *)
(* assistant message, the concatenation of the turn's answer fragments;     *)
(* every other step (a fragment, an interrupt, a fault, a stream that ends  *)
(* without the marker, a re-prompt) leaves the conversation unchanged.      *)
C4_ConversationAppends ==
    [][ IF requests' # requests
        THEN /\ messages' = Append(messages, [role |-> "user", content |-> user_input'])
             /\ requests' = Append(requests, messages')
        ELSE IF pc = "stream" /\ Len(chunks') = Len(chunks) + 1 /\ Last(chunks').finish
        THEN messages' = Append(messages,
                                [role |-> "assistant", content |-> AnswerOf(chunks')])
        ELSE messages' = messages ]_vars

\* a turn with answer fragments reached the terminal marker
C4_Witness ==
    /\ pc = "input"
    /\ Len(chunks) >= 2
    /\ Last(chunks).finish
    /\ Last(messages).role = "assistant"
    /\ Last(messages).content # <<>>

----------------------------------------------------------------------------
(* Fuzzy matching: is_fuzzy_match, ds.py 205-219 *)

UpperLetters ==
    <<"A", "B", "C", "D", "E", "F", "G", "H", "I", "J", "K", "L", "M",
      "N", "O", "P", "Q", "R", "S", "T", "U", "V", "W", "X", "Y", "Z">>

LowerLetters ==
    <<"a", "b", "c", "d", "e", "f", "g", "h", "i", "j", "k", "l", "m",
      "n", "o", "p", "q", "r", "s", "t", "u", "v", "w", "x", "y", "z">>

lower_char(c) ==
    IF \E i \in 1..26 : UpperLetters[i] = c
    THEN LowerLetters[CHOOSE i \in 1..26 : UpperLetters[i] = c]
    ELSE c

\* s.lower()
lower(s) == [i \in 1..Len(s) |-> lower_char(s[i])]

\* the character class of line 213: whitespace and _ - . / \ : ( ) ' " ` [ ] { } < >
\* (the backquote is the symbol "backquote")
Delimiters ==
    Whitespace \cup {"_", "-", ".", "/", "\\", ":", "(", ")", "'", "\"", "backquote",
                     "[", "]", "{", "}", "<", ">"}

RECURSIVE skip_delimiters(_)
skip_delimiters(s) ==
    IF s # <<>> /\ Head(s) \in Delimiters THEN skip_delimiters(Tail(s)) ELSE s

\* re.split(r'[...]+', s), continuing the token tok: the runs between delimiter
\* runs, an empty one where s starts or ends with a delimiter
RECURSIVE re_split(_, _)
re_split(s, tok) ==
    IF s = <<>> THEN <<tok>>
    ELSE IF Head(s) \in Delimiters THEN <<tok>> \o re_split(skip_delimiters(s), <<>>)
    ELSE re_split(Tail(s), Append(tok, Head(s)))

\* the length of the common run of a from i and b from j, within a[:ahi], b[:bhi]
RECURSIVE common_run(_, _, _, _, _, _)
common_run(a, b, i, j, ahi, bhi) ==
    IF i < ahi /\ j < bhi /\ a[i + 1] = b[j + 1]
    THEN 1 + common_run(a, b, i + 1, j + 1, ahi, bhi)
    ELSE 0

\* SequenceMatcher.find_longest_match (no junk): the longest block common to
\* a[alo:ahi] and b[blo:bhi], the earliest in a and then in b among the longest
find_longest_match(a, b, alo, ahi, blo, bhi) ==
    LET pairs == (alo..(ahi - 1)) \X (blo..(bhi - 1))
        size(p) == common_run(a, b, p[1], p[2], ahi, bhi)
        longest == { p \in pairs : size(p) > 0 /\ \A q \in pairs : size(q) <= size(p) }
    IN IF longest = {} THEN [i |-> alo, j |-> blo, size |-> 0]
       ELSE LET p == CHOOSE p \in longest :
                        \A q \in longest :
                            p[1] < q[1] \/ (p[1] = q[1] /\ p[2] <= q[2])
            IN [i |-> p[1], j |-> p[2], size |-> size(p)]

\* the characters in SequenceMatcher.get_matching_blocks: the longest block,
\* then the same to its left and to its right
RECURSIVE matching_size(_, _, _, _, _, _)
matching_size(a, b, alo, ahi, blo, bhi) ==
    LET m == find_longest_match(a, b, alo, ahi, blo, bhi)
    IN IF m.size = 0 THEN 0
       ELSE m.size
            + matching_size(a, b, alo, m.i, blo, m.j)
            + matching_size(a, b, m.i + m.size, ahi, m.j + m.size, bhi)

\* threshold=0.6, in tenths
ThresholdTenths == 6

\* SequenceMatcher(None, a, b).ratio() >= threshold, where ratio is
\* 2.0 * matches / (len(a) + len(b)), and 1.0 for two empty strings
ratio_reaches_threshold(a, b) ==
    IF Len(a) + Len(b) = 0 THEN TRUE
    ELSE 10 * 2 * matching_size(a, b, 0, Len(a), 0, Len(b))
            >= ThresholdTenths * (Len(a) + Len(b))

\* is_fuzzy_match without the lower() of line 206
is_fuzzy_match_case_sensitive(line, kw) ==
    LET keyword_lower == lower(kw)
        tokens == re_split(line, <<>>)
    IN \/ Contains(line, keyword_lower)
       \/ \E t \in 1..Len(tokens) : Contains(tokens[t], keyword_lower)
       \/ ratio_reaches_threshold(line, keyword_lower)

is_fuzzy_match(line, kw) ==
    LET line_lower == lower(line)
        keyword_lower == lower(kw)
        tokens == re_split(line_lower, <<>>)
    IN \/ Contains(line_lower, keyword_lower)
       \/ \E t \in 1..Len(tokens) : Contains(tokens[t], keyword_lower)
       \/ ratio_reaches_threshold(line_lower, keyword_lower)

\* a few evaluations, as Python gives them
FuzzyExamples ==
    /\ is_fuzzy_match(<<"h", "e", "l", "l", "o", " ", "w", "\n", "\n">>, <<"H", "E", "L">>)
    /\ is_fuzzy_match(<<"a", "b", "x", "c", "\n", "\n">>, <<"a", "b", "c">>)
    /\ ~is_fuzzy_match(<<"a", "b", "d", "\n", "\n">>, <<"a", "b", "c">>)
    /\ ~is_fuzzy_match(<<"x", "\n", "\n">>, <<"b">>)
    /\ re_split(<<" ", "a", ".", "-", "b", "\n", "\n">>, <<>>) = << <<>>, <<"a">>, <<"b">>, <<>> >>
    /\ matching_size(<<"a", "b", "c", "d">>, <<"b", "c", "d", " ", "a", "b", "c", "d">>,
                     0, 4, 0, 8) = 4
    /\ findall_file(<<"x">> \o Directive(<<"f">>) \o FileDirective \o <<"\n", ")">>
                    \o Directive(<<>>)) = << <<"f">>, <<>> >>
    /\ replace(<<"a", "a", "a", "b">>, <<"a", "a">>, <<"c">>) = <<"c", "a", "b">>
    /\ strip(<<" ", "\n", "a", " ", "b", "\n", "\n">>) = <<"a", " ", "b">>

----------------------------------------------------------------------------
(* The history directory *)

\* datetime.now().strftime("%Y-%m-%d_%H-%M-%S") + ".session" (lines 197-198) for
\* the k-th session of the day, started at 1k:00:00
session_name(k) ==
    <<"2", "0", "2", "5", "-", "0", "1", "-", "0", "1", "_", "1", Digits[k + 1],
      "-", "0", "0", "-", "0", "0", ".", "s", "e", "s", "s", "i", "o", "n">>

\* a file of the directory that is no session log
NotesName == <<"n", "o", "t", "e", "s", ".", "t", "x", "t">>

NotesWrites == << <<"a", "B", "\n">> >>

\* the text of a file: its writes one after the other
FileText(writes) == Flatten(writes)

\* f.readlines(): the lines, each with its newline
RECURSIVE readlines(_)
readlines(t) ==
    IF t = <<>> THEN <<>>
    ELSE LET k == find(t, <<"\n">>, 0)
         IN IF k = -1 THEN <<t>>
            ELSE <<Slice(t, 0, k + 1)>> \o readlines(Slice(t, k + 1, Len(t)))

\* the characters of file names, in code-point order
CodeOrder ==
    <<"-", ".", "0", "1", "2", "3", "4", "5", "6", "7", "8", "9", "_">> \o LowerLetters

ord(c) == CHOOSE i \in 1..Len(CodeOrder) : CodeOrder[i] = c

\* a < b for two strings
RECURSIVE str_less(_, _)
str_less(a, b) ==
    IF a = <<>> THEN b # <<>>
    ELSE IF b = <<>> THEN FALSE
    ELSE IF Head(a) = Head(b) THEN str_less(Tail(a), Tail(b))
    ELSE ord(Head(a)) < ord(Head(b))

\* sorted(names)
RECURSIVE sorted(_)
sorted(names) ==
    IF names = {} THEN <<>>
    ELSE LET m == CHOOSE x \in names : \A y \in names \ {x} : str_less(x, y)
         IN <<m>> \o sorted(names \ {m})

\* the texts of the logged turns
TurnTexts == { <<"a", "B">>, <<" ">>, <<"a", "b", "x", "c">> }

\* the keywords searched for
Keywords == { <<"b">>, <<"a", "b", "c">>, <<>> }

\* a plan of the sessions that wrote the directory: the turns in order, each
\* with its text and whether it is the first of a new session
HistoryPlans ==
    { p \in UNION { [1..n -> [text : TurnTexts, new_file : BOOLEAN]] : n \in 1..MaxTurns } :
        p[1].new_file }

\* the session files the plan's append_to_log calls leave: in each file the
\* roles alternate from User, and the clock moves a second between writes
RECURSIVE session_files(_, _)
session_files(plan, files) ==
    IF plan = <<>> THEN files
    ELSE LET fs == IF Head(plan).new_file THEN Append(files, <<>>) ELSE files
             n == Len(fs)
             role == IF Len(fs[n]) % 2 = 0 THEN User ELSE Assistant
         IN session_files(Tail(plan),
                          [fs EXCEPT ![n] = append_to_log(fs[n], role, clock(n, Len(fs[n])),
                                                          Head(plan).text)])

\* the directory: the session files under their names, and the notes file
directory(files) ==
    [name \in { session_name(k) : k \in 1..Len(files) } \cup {NotesName} |->
        IF name = NotesName THEN NotesWrites
        ELSE files[CHOOSE k \in 1..Len(files) : session_name(k) = name]]

----------------------------------------------------------------------------
(* search_history, ds.py 221-260, and highlight_keyword, ds.py 262-273 *)

\* the file the loop of line 230 is at
filename == listing[file_index]

\* line 238
is_header(line) ==
    StartsWith(line, <<"[", "U", "s", "e", "r">>)
    \/ StartsWith(line, <<"[", "A", "s", "s", "i", "s", "t", "a", "n", "t">>)

\* lines 240-242 and 249-250: the block read so far is recorded if it is not
\* blank and matches
collect(res, file, header, block, kw) ==
    IF strip(block) # <<>> /\ is_fuzzy_match(block, kw)
    THEN Append(res, <<file, strip(header), strip(block)>>)
    ELSE res

\* fresh_locals with results kept from the call before
fresh_locals_keep_results ==
    [results |-> results, current_block |-> <<>>, current_header |-> <<>>]

\* the locals as lines 226-228 set them at the start of a call
fresh_locals == [results |-> <<>>, current_block |-> <<>>, current_header |-> <<>>]

\* results[-max_results:], line 256 (-0 is 0: the whole list)
last_results(res, n) ==
    IF n = 0 THEN res ELSE SubSeq(res, Max(1, Len(res) - n + 1), Len(res))

\* Fore.RED, Style.BRIGHT and Style.RESET_ALL: one symbol per escape sequence
RED == "ESC[31m"

BRIGHT == "ESC[1m"

RESET_ALL == "ESC[0m"

\* highlight_step with the lower-cased slice emitted
highlight_step_lowercased(text, kw, i, result) ==
    IF lower(Slice(text, i, i + Len(kw))) = lower(kw)
    THEN [i |-> i + Len(kw),
          result |-> result \o <<RED, BRIGHT>> \o lower(Slice(text, i, i + Len(kw)))
                     \o <<RESET_ALL>>]
    ELSE [i |-> i + 1, result |-> Append(result, text[i + 1])]

\* highlight_step without the lower() of the slice in line 267
highlight_step_case_sensitive(text, kw, i, result) ==
    IF Slice(text, i, i + Len(kw)) = lower(kw)
    THEN [i |-> i + Len(kw),
          result |-> result \o <<RED, BRIGHT>> \o Slice(text, i, i + Len(kw)) \o <<RESET_ALL>>]
    ELSE [i |-> i + 1, result |-> Append(result, text[i + 1])]

\* one pass of the while loop of lines 266-272
highlight_step(text, kw, i, result) ==
    IF lower(Slice(text, i, i + Len(kw))) = lower(kw)
    THEN [i |-> i + Len(kw),
          result |-> result \o <<RED, BRIGHT>> \o Slice(text, i, i + Len(kw)) \o <<RESET_ALL>>]
    ELSE [i |-> i + 1, result |-> Append(result, text[i + 1])]

\* search_history(keyword, max_results) is called on a history directory
SearchInit ==
    /\ s_pc = "start"
    /\ \E plan \in HistoryPlans : history = directory(session_files(plan, <<>>))
    /\ keyword \in Keywords
    /\ max_results \in 0..MaxResults
    /\ results = <<>>
    /\ current_block = <<>>
    /\ current_header = <<>>
    /\ listing = <<>>
    /\ file_index = 0
    /\ lines = <<>>
    /\ line_index = 0
    /\ show_index = 0
    /\ report = <<>>
    /\ not_found = FALSE
    /\ run = 1
    /\ first_report = <<>>

\* lines 226-230: the locals are set and the loop over the sorted listing starts
SearchStart ==
    /\ s_pc = "start"
    /\ results' = fresh_locals.results
    /\ current_block' = fresh_locals.current_block
    /\ current_header' = fresh_locals.current_header
    /\ listing' = sorted(DOMAIN history)
    /\ file_index' = 1
    /\ lines' = <<>>
    /\ line_index' = 0
    /\ show_index' = 0
    /\ report' = <<>>
    /\ not_found' = FALSE
    /\ s_pc' = "files"
    /\ UNCHANGED <<history, keyword, max_results, run, first_report>>
    /\ UNCHANGED <<argVars, chatVars, hlVars>>

\* lines 231-232: a file that is no session log is passed over
SkipFile ==
    /\ s_pc = "files"
    /\ file_index <= Len(listing)
    /\ ~EndsWith(filename, <<".", "s", "e", "s", "s", "i", "o", "n">>)
    /\ file_index' = file_index + 1
    /\ UNCHANGED <<s_pc, history, keyword, max_results, results, current_block,
                   current_header, listing, lines, line_index, show_index, report,
                   not_found, run, first_report>>
    /\ UNCHANGED <<argVars, chatVars, hlVars>>

\* lines 233-235: a session log is opened and read
OpenFile ==
    /\ s_pc = "files"
    /\ file_index <= Len(listing)
    /\ EndsWith(filename, <<".", "s", "e", "s", "s", "i", "o", "n">>)
    /\ lines' = readlines(FileText(history[filename]))
    /\ line_index' = 1
    /\ s_pc' = "lines"
    /\ UNCHANGED <<history, keyword, max_results, results, current_block,
                   current_header, listing, file_index, show_index, report, not_found,
                   run, first_report>>
    /\ UNCHANGED <<argVars, chatVars, hlVars>>

\* lines 237-246: one line of the file
ScanLine ==
    /\ s_pc = "lines"
    /\ line_index <= Len(lines)
    /\ LET line == lines[line_index]
       IN IF is_header(line)
          THEN /\ results' = collect(results, filename, current_header, current_block,
                                     keyword)
               /\ current_header' = line
               /\ current_block' = <<>>
          ELSE /\ current_block' = current_block \o line
               /\ UNCHANGED <<results, current_header>>
    /\ line_index' = line_index + 1
    /\ UNCHANGED <<s_pc, history, keyword, max_results, listing, file_index, lines,
                   show_index, report, not_found, run, first_report>>
    /\ UNCHANGED <<argVars, chatVars, hlVars>>

\* lines 248-250: the file's lines are exhausted
EndOfFile ==
    /\ s_pc = "lines"
    /\ line_index > Len(lines)
    /\ results' = collect(results, filename, current_header, current_block, keyword)
    /\ file_index' = file_index + 1
    /\ s_pc' = "files"
    /\ UNCHANGED <<history, keyword, max_results, current_block, current_header,
                   listing, lines, line_index, show_index, report, not_found, run,
                   first_report>>
    /\ UNCHANGED <<argVars, chatVars, hlVars>>

\* lines 252-256: the listing is exhausted; nothing found is said so, else the
\* loop over results[-max_results:] starts
Report ==
    /\ s_pc = "files"
    /\ file_index > Len(listing)
    /\ IF results = <<>>
       THEN /\ not_found' = TRUE
            /\ s_pc' = "done"
            /\ UNCHANGED show_index
       ELSE /\ show_index' = 1
            /\ s_pc' = "show"
            /\ UNCHANGED not_found
    /\ UNCHANGED <<history, keyword, max_results, results, current_block,
                   current_header, listing, file_index, lines, line_index, report, run,
                   first_report>>
    /\ UNCHANGED <<argVars, chatVars, hlVars>>

\* lines 256-259: the next result to show; highlight_keyword(block, keyword) is
\* called (lines 263-265)
ShowResult ==
    /\ s_pc = "show"
    /\ show_index <= Len(last_results(results, max_results))
    /\ hl_text' = last_results(results, max_results)[show_index][3]
    /\ hl_keyword' = keyword
    /\ hl_i' = 0
    /\ hl_result' = <<>>
    /\ hl_steps' = 0
    /\ s_pc' = "highlight"
    /\ UNCHANGED <<history, keyword, max_results, results, current_block,
                   current_header, listing, file_index, lines, line_index, show_index,
                   report, not_found, run, first_report>>
    /\ UNCHANGED <<argVars, chatVars>>

\* lines 266-272: one iteration of highlight_keyword's loop
HighlightStep ==
    /\ s_pc = "highlight"
    /\ hl_i < Len(hl_text)
    /\ hl_steps < MaxSteps
    /\ LET h == highlight_step(hl_text, hl_keyword, hl_i, hl_result)
       IN /\ hl_i' = h.i
          /\ hl_result' = h.result
    /\ hl_steps' = hl_steps + 1
    /\ UNCHANGED <<hl_text, hl_keyword>>
    /\ UNCHANGED <<argVars, chatVars, searchVars>>

\* line 273: the loop has ended and the result is returned
HighlightReturn ==
    /\ s_pc = "highlight"
    /\ hl_i >= Len(hl_text)
    /\ s_pc' = "returned"
    /\ UNCHANGED <<history, keyword, max_results, results, current_block,
                   current_header, listing, file_index, lines, line_index, show_index,
                   report, not_found, run, first_report>>
    /\ UNCHANGED <<argVars, chatVars, hlVars>>

\* lines 257-260: the result is printed with its file and header
PrintResult ==
    /\ s_pc = "returned"
    /\ run > 0
    /\ LET r == last_results(results, max_results)[show_index]
       IN report' = Append(report, [file |-> r[1], header |-> r[2], text |-> hl_result])
    /\ show_index' = show_index + 1
    /\ s_pc' = "show"
    /\ UNCHANGED <<history, keyword, max_results, results, current_block,
                   current_header, listing, file_index, lines, line_index, not_found,
                   run, first_report>>
    /\ UNCHANGED <<argVars, chatVars, hlVars>>

\* the loop of line 256 is exhausted: search_history returns
SearchReturn ==
    /\ s_pc = "show"
    /\ show_index > Len(last_results(results, max_results))
    /\ s_pc' = "done"
    /\ UNCHANGED <<history, keyword, max_results, results, current_block,
                   current_header, listing, file_index, lines, line_index, show_index,
                   report, not_found, run, first_report>>
    /\ UNCHANGED <<argVars, chatVars, hlVars>>

\* search_history is called again with the same arguments on the same
\* directory; what the first call printed is kept for comparison
SearchAgain ==
    /\ s_pc = "done"
    /\ run = 1
    /\ run' = 2
    /\ first_report' = <<report, not_found>>
    /\ s_pc' = "start"
    /\ UNCHANGED <<history, keyword, max_results, results, current_block,
                   current_header, listing, file_index, lines, line_index, show_index,
                   report, not_found>>
    /\ UNCHANGED <<argVars, chatVars, hlVars>>

SearchNext ==
    \/ SearchStart
    \/ SkipFile
    \/ OpenFile
    \/ ScanLine
    \/ EndOfFile
    \/ Report
    \/ ShowResult
    \/ HighlightStep
    \/ HighlightReturn
    \/ PrintResult
    \/ SearchReturn
    \/ SearchAgain

SearchSpecInit == args_search = NoSearch /\ ChatInit /\ SearchInit /\ HighlightIdle

SearchSpec == SearchSpecInit /\ [][SearchNext]_vars

\* the strings of length at most n over the characters cs
Strings(cs, n) == UNION { [1..k -> cs] : k \in 0..n }

\* the characters of the texts and keywords highlight_keyword is run on
HighlightChars == {"a", "A", "b"}

\* highlight_keyword(text, keyword) is called on its own
HighlightInit ==
    /\ s_pc = "highlight"
    /\ history = <<>>
    /\ keyword = <<>>
    /\ max_results = 0
    /\ results = <<>>
    /\ current_block = <<>>
    /\ current_header = <<>>
    /\ listing = <<>>
    /\ file_index = 0
    /\ lines = <<>>
    /\ line_index = 0
    /\ show_index = 0
    /\ report = <<>>
    /\ not_found = FALSE
    /\ run = 0
    /\ first_report = <<>>
    /\ hl_text \in Strings(HighlightChars, MaxTextLen)
    /\ hl_keyword \in Strings(HighlightChars, MaxKeyLen)
    /\ hl_i = 0
    /\ hl_result = <<>>
    /\ hl_steps = 0

HighlightNext ==
    \/ HighlightStep
    \/ HighlightReturn

HighlightSpecInit == args_search = NoSearch /\ ChatInit /\ HighlightInit

HighlightSpec == HighlightSpecInit /\ [][HighlightNext]_vars

----------------------------------------------------------------------------
(* The program from its command line, ds.py 275-352 (specification MainSpec) *)

\* search_history's default for max_results, line 221
DefaultMaxResults == 10

\* what args.search may be: --search absent, or given with a keyword
SearchArgs == { NoSearch } \cup { [given |-> TRUE, value |-> kw] : kw \in Keywords }

\* the test of line 290, "if args.search:": None and "" are both false
truthy(arg) == arg.given /\ arg.value # <<>>

\* the command line is parsed (line 281); no session and no log exist yet
MainInit ==
    /\ args_search \in SearchArgs
    /\ pc = "args"
    /\ messages = <<>>
    /\ log_file = <<>>
    /\ consecutive_interrupts = 0
    /\ raw_input = <<>>
    /\ user_input = <<>>
    /\ reply_accum = <<>>
    /\ content = <<>>
    /\ reasoning_printed = FALSE
    /\ printed = <<>>
    /\ chunks = <<>>
    /\ requests = <<>>
    /\ warnings = <<>>
    /\ last_event = "start"
    /\ last_turn = "none"
    /\ n_inputs = 0
    /\ n_chunks = 0
    /\ SearchIdle
    /\ HighlightIdle

\* lines 290-297: with a true args.search, search_history(args.search) is called
\* on the history directory as it is; otherwise the session and its log are
\* created and the loop starts
ParseArgs ==
    /\ pc = "args"
    /\ IF truthy(args_search)
       THEN /\ pc' = "search"
            /\ \E plan \in HistoryPlans : history' = directory(session_files(plan, <<>>))
            /\ keyword' = args_search.value
            /\ max_results' = DefaultMaxResults
            /\ s_pc' = "start"
            /\ run' = 1
            /\ UNCHANGED messages
       ELSE /\ pc' = "input"
            /\ messages' = <<[role |-> "system", content |-> SystemMessage]>>
            /\ UNCHANGED <<s_pc, history, keyword, max_results, run>>
    /\ UNCHANGED <<results, current_block, current_header, listing, file_index, lines,
                   line_index, show_index, report, not_found, first_report>>
    /\ UNCHANGED <<log_file, consecutive_interrupts, raw_input, user_input, reply_accum,
                   content, reasoning_printed, printed, chunks, requests, warnings,
                   last_event, last_turn, n_inputs, n_chunks>>
    /\ UNCHANGED <<argVars, hlVars>>

\* line 292: exit(0) once search_history has returned
SearchExit ==
    /\ pc = "search"
    /\ s_pc = "done"
    /\ pc' = "exited"
    /\ UNCHANGED <<messages, log_file, consecutive_interrupts, raw_input, user_input,
                   reply_accum, content, reasoning_printed, printed, chunks, requests,
                   warnings, last_event, last_turn, n_inputs, n_chunks>>
    /\ UNCHANGED <<argVars, searchVars, hlVars>>

MainNext ==
    \/ ParseArgs
    \/ SearchExit
    \/ SearchStart
    \/ SkipFile
    \/ OpenFile
    \/ ScanLine
    \/ EndOfFile
    \/ Report
    \/ ShowResult
    \/ HighlightStep
    \/ HighlightReturn
    \/ PrintResult
    \/ SearchReturn
    \/ InputInterrupt
    \/ \E line \in UserInputs : InputLine(line)
    \/ DispatchOk
    \/ TransportFault
    \/ StreamInterrupt
    \/ \E chunk \in Chunks : StreamFragment(chunk)
    \/ \E chunk \in Chunks : StreamTerminal(chunk)
    \/ StreamEnd

MainSpec == MainInit /\ [][MainNext]_vars

----------------------------------------------------------------------------
(* The search over one session file with turns of several lines             *)
(* (specification SegmentSpec)                                              *)

\* the texts of the logged turns: one line, two lines, and two lines of which
\* the second begins like a header
SegmentTexts ==
    { <<"a">>,
      <<"a", "\n", "b">>,
      <<"a", "\n", "[", "U", "s", "e", "r", "b">> }

\* the turns of one session, in order
SegmentPlans ==
    UNION { [1..n -> [text : SegmentTexts, new_file : {FALSE}]] : n \in 1..MaxTurns }

\* search_history("a") is called on a directory with that one session file
SegmentInit ==
    /\ s_pc = "start"
    /\ \E plan \in SegmentPlans :
           history = directory(session_files([plan EXCEPT ![1].new_file = TRUE], <<>>))
    /\ keyword = <<"a">>
    /\ max_results = DefaultMaxResults
    /\ results = <<>>
    /\ current_block = <<>>
    /\ current_header = <<>>
    /\ listing = <<>>
    /\ file_index = 0
    /\ lines = <<>>
    /\ line_index = 0
    /\ show_index = 0
    /\ report = <<>>
    /\ not_found = FALSE
    /\ run = 1
    /\ first_report = <<>>

SegmentSpecInit == args_search = NoSearch /\ ChatInit /\ SegmentInit /\ HighlightIdle

SegmentSpec == SegmentSpecInit /\ [][SearchNext]_vars

----------------------------------------------------------------------------
(* Properties of the search (specification SearchSpec) *)

IsSessionName(name) == EndsWith(name, <<".", "s", "e", "s", "s", "i", "o", "n">>)

\* the header line of a logged turn, without its newline, and the lines after it
TurnHeader(w) == Slice(w, 0, find(w, <<"\n">>, 0))

TurnBlock(w) == Slice(w, find(w, <<"\n">>, 0) + 1, Len(w))

\* the scan of all files is over (line 252 is reached)
Collected ==
    /\ run > 0
    /\ \/ s_pc \in {"show", "highlight", "returned", "done"}
       \/ s_pc = "files" /\ file_index > Len(listing)

\* one triple per turn of the file whose body is not blank and matches kw
MatchesOfFile(name, writes, kw) ==
    Flatten([i \in 1..Len(writes) |->
                IF EntryText(writes[i]) # <<>> /\ is_fuzzy_match(TurnBlock(writes[i]), kw)
                THEN << <<name, TurnHeader(writes[i]), EntryText(writes[i])>> >>
                ELSE <<>>])

\* ... over the session files in ascending order of name
ExpectedMatches ==
    LET names == SelectSeq(sorted(DOMAIN history), IsSessionName)
    IN Flatten([k \in 1..Len(names) |-> MatchesOfFile(names[k], history[names[k]], keyword)])

(* C5. When the scan is over, the collected results are exactly one         *)
(* (filename, header, body) triple per turn whose non-blank body matches    *)
(* the keyword, with the file that holds the turn and the turn's own        *)
(* header, ordered by file name and then by position in the file.           *)
C5_OneTriplePerMatchingTurn == Collected => results = ExpectedMatches

\* the result text with the emphasis sequences removed
IsPlain(x) == x \notin {RED, BRIGHT, RESET_ALL}

StripMarkup(r) == SelectSeq(r, IsPlain)

(* C6. When search_history returns, it has signalled "no results" and       *)
(* printed nothing if nothing was collected; otherwise it has printed       *)
(* exactly min(N, max_results) results, the last ones of the N collected,   *)
(* in order.                                                                *)
C6_ReportsLastMaxResults ==
    (run > 0 /\ s_pc = "done") =>
        IF results = <<>> THEN not_found /\ report = <<>>
        ELSE /\ ~not_found
             /\ Len(report) = Min(Len(results), max_results)
             /\ \A i \in 1..Len(report) :
                    LET r == results[Len(results) - Len(report) + i]
                    IN /\ report[i].file = r[1]
                       /\ report[i].header = r[2]
                       /\ StripMarkup(report[i].text) = r[3]

\* the turn w of file name is among the collected results
TurnCollected(name, w) ==
    \E i \in 1..Len(results) : results[i] = <<name, TurnHeader(w), EntryText(w)>>

\* the keyword is a case-insensitive literal substring of the turn's text
KeywordInTurn(w) == Contains(lower(EntryText(w)), lower(keyword))

C8_SearchIdempotent ==
    (run = 2 /\ s_pc = "done") => <<report, not_found>> = first_report

\* the second call has returned after printing two results
C8_Witness ==
    /\ run = 2
    /\ s_pc = "done"
    /\ Len(report) >= 2

----------------------------------------------------------------------------
(* Properties of highlight_keyword (specification HighlightSpec) *)

\* the emphasized spans of a result: for each, where it starts in the text and
\* how many characters it holds (p: characters so far; open: the start of the
\* span being read, or -1)
RECURSIVE spans_of(_, _, _)
spans_of(r, p, open) ==
    IF r = <<>> THEN <<>>
    ELSE IF Head(r) = RED THEN spans_of(Tail(r), p, p)
    ELSE IF Head(r) = BRIGHT THEN spans_of(Tail(r), p, open)
    ELSE IF Head(r) = RESET_ALL
    THEN <<[start |-> open, len |-> p - open]>> \o spans_of(Tail(r), p, -1)
    ELSE spans_of(Tail(r), p + 1, open)

Spans == spans_of(hl_result, 0, -1)

\* the keyword occurs in the text at p, ignoring case
OccursAt(p) ==
    /\ p + Len(hl_keyword) <= Len(hl_text)
    /\ lower(Slice(hl_text, p, p + Len(hl_keyword))) = lower(hl_keyword)

Highlighting == s_pc \in {"highlight", "returned"}

(* C9. Throughout highlight_keyword, the result without its emphasis        *)
(* sequences is the text read so far, character for character; when it      *)
(* returns, that is the whole text.                                         *)
C9_StripRoundTrip ==
    /\ Highlighting => StripMarkup(hl_result) = Slice(hl_text, 0, hl_i)
    /\ s_pc = "returned" => StripMarkup(hl_result) = hl_text

\* a text with an upper-case occurrence and a character outside it was highlighted
C9_Witness ==
    /\ s_pc = "returned"
    /\ Len(Spans) >= 1
    /\ Len(hl_text) > Len(hl_keyword)
    /\ \E k \in 1..Len(Spans) :
        Slice(hl_text, Spans[k].start, Spans[k].start + Spans[k].len) # hl_keyword

(* C10. Throughout highlight_keyword, every emphasized span has the         *)
(* keyword's length and equals it ignoring case, the spans follow one       *)
(* another without overlap, and every occurrence of the keyword that starts *)
(* in the text read so far starts inside (or at the start of) a span; when  *)
(* it returns, the text read so far is the whole text.                      *)
C10_SpansAreGreedyOccurrences ==
    Highlighting =>
        /\ \A k \in 1..Len(Spans) :
            /\ Spans[k].len = Len(hl_keyword)
            /\ OccursAt(Spans[k].start)
        /\ \A k \in 1..(Len(Spans) - 1) :
            Spans[k].start + Spans[k].len <= Spans[k + 1].start
        /\ \A p \in 0..(hl_i - 1) :
            OccursAt(p) =>
                \E k \in 1..Len(Spans) :
                    Spans[k].start <= p /\ p < Spans[k].start + Spans[k].len
        /\ s_pc = "returned" => hl_i = Len(hl_text)

\* two spans were emphasized and an occurrence that overlaps one was passed over
C10_Witness ==
    /\ s_pc = "returned"
    /\ Len(Spans) >= 1
    /\ \E p \in 0..(Len(hl_text) - 1) :
        /\ OccursAt(p)
        /\ \A k \in 1..Len(Spans) : Spans[k].start # p


----------------------------------------------------------------------------
(* Interrupts, faults and the transcript (specification Spec) *)

\* Ctrl+C arrives while a line is awaited
InputInterrupted == pc = "input" /\ consecutive_interrupts' = consecutive_interrupts + 1

\* Ctrl+C arrives while the chunks of a reply are consumed
StreamInterrupted == pc = "stream" /\ consecutive_interrupts' = consecutive_interrupts + 1

(* C11. An interrupt while a line is awaited ends the program exactly when  *)
(* the event before it was also an interrupt while a line was awaited;      *)
(* otherwise (after the start, a reply, a re-prompt or an interrupt during  *)
(* streaming) it only returns to the prompt.                                *)
C11_InputInterruptExit ==
    [][ InputInterrupted =>
            /\ pc' = "exited" <=> last_event = "input_interrupt"
            /\ pc' # "exited" => pc' = "input" ]_vars

(* C12. An interrupt while a reply is streamed logs no Assistant entry and  *)
(* returns to the prompt, unless the dispatched turn before this one was    *)
(* interrupted while streaming too: then it ends the program.               *)
C12_StreamInterruptExit ==
    [][ StreamInterrupted =>
            /\ log_file' = log_file
            /\ pc' = "exited" <=> last_turn = "interrupted"
            /\ pc' # "exited" => pc' = "input" ]_vars

\* the paths a line may name, and those of them that name no file
Paths == { <<"f">>, <<"m">> }

MissingIn(line) == { path \in Paths \ DOMAIN FileSystem : Contains(line, Directive(path)) }

\* a line was captured in this step
LineCaptured == n_inputs' = n_inputs + 1

(* C13. When the captured line holds an @file directive whose file does not *)
(* exist, one warning naming such a file is printed, no request is sent, no *)
(* message is appended to the conversation (also when an earlier directive  *)
(* of the line was expanded), and the loop waits for a line again.          *)
C13_MissingFileReprompts ==
    [][ (LineCaptured /\ MissingIn(raw_input') # {}) =>
            /\ Len(warnings') = Len(warnings) + 1
            /\ Last(warnings') \in MissingIn(raw_input')
            /\ requests' = requests
            /\ messages' = messages
            /\ pc' = "input" ]_vars

\* a line whose first directive was expanded and whose second names no file
\* was captured: the warning is out and the conversation holds no user message
C13_Witness ==
    /\ pc = "input"
    /\ last_event = "line"
    /\ warnings = << <<"m">> >>
    /\ Contains(user_input, file_block(<<"f">>, FileSystem[<<"f">>]))
    /\ Contains(user_input, Directive(<<"m">>))
    /\ Len(messages) = 1
    /\ requests = <<>>

(* C14. A fault of the transport while a reply is streamed aborts the turn  *)
(* only: no Assistant entry is logged and the loop waits for the next line. *)
C14_FaultAbortsTurnOnly ==
    [][ (pc = "stream" /\ last_event' = "fault") =>
            /\ log_file' = log_file
            /\ pc' = "input" ]_vars

\* this step wrote an Assistant entry / appended an assistant message
AssistantLogged ==
    /\ Len(log_file') = Len(log_file) + 1
    /\ EntryRole(Last(log_file')) = "Assistant"

AssistantAppended ==
    /\ Len(messages') = Len(messages) + 1
    /\ Last(messages').role = "assistant"

(* C17. An Assistant entry is written only in a step that processed a chunk *)
(* with finish_reason, and exactly in the steps that append an assistant    *)
(* message, whose content (trimmed) is the entry's text.                    *)
C17_LogAgreesWithConversation ==
    [][ /\ AssistantLogged <=> AssistantAppended
        /\ AssistantLogged =>
               /\ Len(chunks') = Len(chunks) + 1
               /\ Last(chunks').finish
               /\ EntryText(Last(log_file')) = strip(Last(messages').content) ]_vars

(* C19. The conversation is the system entry followed by user and assistant *)
(* entries in strict alternation, starting with a user entry.               *)
C19_RolesAlternate ==
    /\ messages[1].role = "system"
    /\ \A i \in 2..Len(messages) :
           messages[i].role = (IF i % 2 = 0 THEN "user" ELSE "assistant")

(* C20 (as amended). Every captured line adds exactly one User entry to the *)
(* log, holding the line as captured, before any @file expansion, with      *)
(* leading and trailing whitespace trimmed, also when the line is then      *)
(* discarded for a missing file; no other step adds a User entry.           *)
C20_UserEntryIsTrimmedRawInput ==
    [][ /\ LineCaptured =>
               /\ Len(log_file') = Len(log_file) + 1
               /\ SubSeq(log_file', 1, Len(log_file)) = log_file
               /\ EntryRole(Last(log_file')) = "User"
               /\ EntryText(Last(log_file')) = strip(raw_input')
        /\ ~LineCaptured =>
               \/ log_file' = log_file
               \/ AssistantLogged ]_vars

\* a line with an expanded directive is logged as typed and dispatched
\* expanded, after a line that was discarded for a missing file
C20_Witness ==
    /\ pc = "dispatch"
    /\ Len(log_file) = 2
    /\ EntryText(log_file[1]) = Directive(<<"f">>) \o Directive(<<"m">>)
    /\ Contains(EntryText(log_file[2]), Directive(<<"f">>))
    /\ ~Contains(user_input, Directive(<<"f">>))
    /\ Len(requests) = 1

(* C20 (as stated). Every captured line adds exactly one User entry to the  *)
(* log, holding the raw line, before any @file expansion; no other step     *)
(* adds a User entry.                                                       *)
C20_UserEntryIsRawInput ==
    [][ /\ LineCaptured =>
               /\ Len(log_file') = Len(log_file) + 1
               /\ SubSeq(log_file', 1, Len(log_file)) = log_file
               /\ EntryRole(Last(log_file')) = "User"
               /\ EntryText(Last(log_file')) = raw_input'
        /\ ~LineCaptured =>
               \/ log_file' = log_file
               \/ AssistantLogged ]_vars

----------------------------------------------------------------------------
(* Properties of the program from its command line (specification MainSpec) *)

(* C15. When --search is given, with any keyword, the empty one included,   *)
(* no chat session and no session log are created, the interactive loop is  *)
(* never entered, and the program exits after one search.                   *)
C15_SearchFlagOnlySearches ==
    args_search.given =>
        /\ pc \in {"args", "search", "exited"}
        /\ messages = <<>>
        /\ log_file = <<>>
        /\ pc = "exited" => (run = 1 /\ s_pc = "done")

----------------------------------------------------------------------------
(* Properties of the turn segmentation (specification SegmentSpec) *)

\* the turns append_to_log wrote to a file: header line and trimmed text
WrittenTurns(writes) ==
    { <<TurnHeader(writes[k]), EntryText(writes[k])>> : k \in 1..Len(writes) }

\* the scan closes the turn it was reading: a header line or the end of the
\* file is met
TurnClosed ==
    /\ s_pc = "lines"
    /\ current_header # <<>>
    /\ current_header' # current_header \/ s_pc' = "files"

(* C16. Every turn the scan of a session file closes is a turn that         *)
(* append_to_log wrote to it, with that turn's header and its whole trimmed *)
(* text as body: a body line that only begins like a header closes nothing. *)
C16_SegmentsAreWrittenTurns ==
    [][ TurnClosed =>
            <<strip(current_header), strip(current_block)>>
                \in WrittenTurns(history[filename]) ]_vars

----------------------------------------------------------------------------
(* Termination of the search (specification SearchSpec) *)

(* C18. search_history terminates: each of its loops runs over a finite     *)
(* sequence, so it terminates if every pass of every loop moves that loop's *)
(* cursor forward: the files, the lines of a file, the results shown, and   *)
(* the characters of the text highlight_keyword emphasizes.                 *)
C18_SearchLoopsAdvance ==
    [][ /\ (s_pc = "highlight" /\ s_pc' = "highlight") => hl_i' > hl_i
        /\ (s_pc = "lines" /\ s_pc' = "lines") => line_index' > line_index
        /\ (s_pc \in {"files", "lines"} /\ s_pc' = "files") => file_index' > file_index
        /\ (s_pc = "returned" /\ s_pc' = "show") => show_index' > show_index ]_vars

============================================================================
